---- MODULE Spec2Model ----
(***************************************************************************)
(* Model of the prompt-visualizer backend (backend/app.py): the output     *)
(* extractor, the backend fallback chain, the select-only executor, the    *)
(* ask handler and the Parquet snapshot builder.                           *)
(*                                                                         *)
(* Python str values are sequences of one-character strings; Optional[str] *)
(* values are records [tag, s] so that None and "" stay distinct.          *)
(***************************************************************************)
EXTENDS Integers, Sequences, FiniteSets, TLC

VARIABLES
    \* files of the data directory and the wall clock
    clock,          \* current time; a written file gets it as modification time
    csvMtime,       \* CSV base name -> modification time, or Absent
    pqMtime,        \* CSV base name -> modification time of <base>.parquet, or Absent
    csvGood,        \* CSV base name -> TRUE when the COPY of _csv_to_parquet succeeds on it
    listOrder,      \* the order in which os.listdir returns the CSV files
    srcEpoch,       \* number of changes made to the CSV files so far
    ensureLog,      \* one record per _ensure_parquet call
    \* the process
    appState,       \* "down", "up" (create_app returned) or "failed" (create_app raised)
    duckdbInstalled,\* the module-level import of duckdb succeeded
    openaiKey,      \* OPENAI_API_KEY is set
    anthropicKey,   \* ANTHROPIC_API_KEY is set
    PARQUET_PATH,   \* global PARQUET_PATH: PathNone or the base name of the snapshot
    DUCK_CONN,      \* global DUCK_CONN: "None" or "conn"
    view,           \* what the view data of DUCK_CONN selects from: PathNone when there is no view
    REQUESTS_TOTAL, \* global REQUESTS_TOTAL
    ERRORS_TOTAL,   \* global ERRORS_TOTAL
    \* the request being handled
    pc,             \* position of the ask handler
    question,       \* the question of the request body
    flags,          \* pie_chart, scatter_plot, histogram of ask
    context,        \* the context handed to the backends
    source,         \* first component of generate_sql_from_question's result
    sql,            \* second component of generate_sql_from_question's result
    invoked,        \* the backend functions called by this request, in order
    stmts,          \* statements handed to DUCK_CONN.execute by this request
    response,       \* the response of the request
    \* query_parquet harness
    q_cap,          \* max_rows of the call
    q_out,          \* what the call returned or raised
    \* extractor harness
    text,           \* the raw completion handed to _extract_sql
    extracted,      \* what _extract_sql returned for it
    \* normalize_csv.py: the cell parsers
    cell,           \* the value handed to the two cell parsers
    money,          \* what parse_money_to_int returned for it
    employees,      \* what parse_employees_to_int returned for it
    \* normalize_csv.py: one run of normalize_csv
    fieldnames,     \* reader.fieldnames: the header of the input file
    raw_rows,       \* the lines after the header, each a sequence of cells
    n_pos,          \* number of lines the reader has consumed
    rows_in,        \* local rows_in
    rows_out,       \* local rows_out
    written,        \* the rows written to the output file after its header
    n_pc,           \* "loop", "returned" or "raised"
    \* request threads of one process
    threads         \* thread -> [kind, pc, tmp]

fsvars == <<clock, csvMtime, pqMtime, csvGood, listOrder, srcEpoch, ensureLog>>
envvars == <<duckdbInstalled, openaiKey, anthropicKey>>
procvars == <<appState, PARQUET_PATH, DUCK_CONN, view, REQUESTS_TOTAL, ERRORS_TOTAL>>
reqvars == <<pc, question, flags, context, source, sql, invoked, stmts, response>>
qvars == <<q_cap, q_out>>
xvars == <<text, extracted>>
csvvars == <<cell, money, employees, fieldnames, raw_rows, n_pos, rows_in, rows_out, written, n_pc>>
vars == <<fsvars, envvars, procvars, reqvars, qvars, xvars, csvvars, threads>>

----------------------------------------------------------------------------
(* Bounds *)

MaxFrags == 3      \* fragments concatenated into one raw completion
MaxTime == 3       \* the clock stops advancing here
MaxStarts == 3     \* create_app calls (process starts) per behaviour
MaxRequests == 2   \* requests handled per process
TableRows == 3     \* rows of the table data
MaxCap == 4        \* largest max_rows tried on query_parquet
MaxWrites == 2     \* changes made to the CSV files per behaviour
MaxCellFrags == 4  \* fragments concatenated into one cell text
MaxCsvRows == 3    \* lines of the input file after its header
MaxThreads == 3    \* requests handled at the same time

----------------------------------------------------------------------------
(* Python values *)

NoneVal == [tag |-> "None", s |-> <<>>]
Str(s) == [tag |-> "str", s |-> s]
NotCalled == [tag |-> "notcalled", s |-> <<>>]

\* Python truthiness of an Optional[str]: isinstance(res, str) and res
IsNonEmptyStr(v) == v.tag = "str" /\ v.s # <<>>

----------------------------------------------------------------------------
(* Python str methods used by app.py *)

UpperLetters ==
    <<"A", "B", "C", "D", "E", "F", "G", "H", "I", "J", "K", "L", "M",
      "N", "O", "P", "Q", "R", "S", "T", "U", "V", "W", "X", "Y", "Z">>

LowerLetters ==
    <<"a", "b", "c", "d", "e", "f", "g", "h", "i", "j", "k", "l", "m",
      "n", "o", "p", "q", "r", "s", "t", "u", "v", "w", "x", "y", "z">>

Digits == {"0", "1", "2", "3", "4", "5", "6", "7", "8", "9"}

\* the backtick character (one character of a Python str)
BT == "<backtick>"

IsSpace(c) == c \in {" ", "\n", "\t", "\r"}

\* \w of the re module
IsWord(c) ==
    \/ \E i \in 1..26 : c = UpperLetters[i] \/ c = LowerLetters[i]
    \/ c \in Digits
    \/ c = "_"

LowerChar(c) ==
    IF \E i \in 1..26 : UpperLetters[i] = c
    THEN LowerLetters[CHOOSE i \in 1..26 : UpperLetters[i] = c]
    ELSE c

\* str.lower()
lower(s) == [i \in 1..Len(s) |-> LowerChar(s[i])]

RECURSIVE lstrip(_)
lstrip(s) ==
    IF s = <<>> THEN s
    ELSE IF IsSpace(Head(s)) THEN lstrip(Tail(s)) ELSE s

RECURSIVE rstrip(_)
rstrip(s) ==
    IF s = <<>> THEN s
    ELSE IF IsSpace(s[Len(s)]) THEN rstrip(SubSeq(s, 1, Len(s) - 1)) ELSE s

\* str.strip()
strip(s) == rstrip(lstrip(s))

\* str.startswith(p)
startswith(s, p) == Len(s) >= Len(p) /\ SubSeq(s, 1, Len(p)) = p

\* str.endswith(p)
endswith(s, p) == Len(s) >= Len(p) /\ SubSeq(s, Len(s) - Len(p) + 1, Len(s)) = p

\* left-to-right scan: does p occur in s at index i or later
RECURSIVE ContainsFrom(_, _, _)
ContainsFrom(s, p, i) ==
    IF i + Len(p) - 1 > Len(s) THEN FALSE
    ELSE IF SubSeq(s, i, i + Len(p) - 1) = p THEN TRUE
    ELSE ContainsFrom(s, p, i + 1)

\* p in s
Contains(s, p) == ContainsFrom(s, p, 1)

----------------------------------------------------------------------------
(* Literals of app.py *)

INSUFFICIENT_DATA ==
    <<"I", "N", "S", "U", "F", "F", "I", "C", "I", "E", "N", "T", "_",
      "D", "A", "T", "A">>

FALLBACK == <<"F", "A", "L", "L", "B", "A", "C", "K">>

InsufficientLiteral ==
    <<"i", "n", "s", "u", "f", "f", "i", "c", "i", "e", "n", "t", " ",
      "d", "a", "t", "a">>

Fence == <<BT, BT, BT>>

SqlTag == <<"s", "q", "l">>

SelectKw == <<"s", "e", "l", "e", "c", "t">>

----------------------------------------------------------------------------
(* _extract_sql *)

\* re.sub of a leading fence with an optional sql tag, re.IGNORECASE
SubLeadingFence(t) ==
    IF startswith(t, Fence)
    THEN LET rest == SubSeq(t, 4, Len(t))
         IN  IF startswith(lower(rest), SqlTag)
             THEN SubSeq(rest, 4, Len(rest))
             ELSE rest
    ELSE t

\* re.sub of a fence at the end of a text with no trailing newline
SubTrailingFence(t) ==
    IF endswith(t, Fence) THEN SubSeq(t, 1, Len(t) - 3) ELSE t

\* r"select\b" with re.IGNORECASE matches at index i
SelectMatchAt(t, i) ==
    /\ i + 5 <= Len(t)
    /\ lower(SubSeq(t, i, i + 5)) = SelectKw
    /\ (i + 6 > Len(t) \/ ~IsWord(t[i + 6]))

\* SearchSelectFrom without the \b of the pattern
RECURSIVE SearchSelectFrom_noBoundary(_, _)
SearchSelectFrom_noBoundary(t, i) ==
    IF i + 5 > Len(t) THEN 0
    ELSE IF lower(SubSeq(t, i, i + 5)) = SelectKw THEN i
    ELSE SearchSelectFrom_noBoundary(t, i + 1)

\* re.search(r"select\b", t, flags=re.IGNORECASE): m.start() + 1, or 0 for no match
RECURSIVE SearchSelectFrom(_, _)
SearchSelectFrom(t, i) ==
    IF i + 5 > Len(t) THEN 0
    ELSE IF SelectMatchAt(t, i) THEN i
    ELSE SearchSelectFrom(t, i + 1)

SearchSelect(t) == SearchSelectFrom(t, 1)

\* the fence removal of _extract_sql (two re.sub calls, each followed by strip)
StripFences(t) == strip(SubTrailingFence(strip(SubLeadingFence(t))))

\* extract_sql with the literal compared without lower()
extract_sql_caseSensitive(txt) ==
    IF txt.tag = "None" \/ txt.s = <<>> THEN NoneVal
    ELSE LET t == strip(txt.s)
         IN  IF Contains(t, InsufficientLiteral) THEN Str(INSUFFICIENT_DATA)
             ELSE LET t2 == StripFences(t)
                      m  == SearchSelect(t2)
                  IN  IF m = 0 THEN NoneVal
                      ELSE Str(strip(SubSeq(t2, m, Len(t2))))

extract_sql(txt) ==
    IF txt.tag = "None" \/ txt.s = <<>> THEN NoneVal
    ELSE LET t == strip(txt.s)
         IN  IF Contains(lower(t), InsufficientLiteral) THEN Str(INSUFFICIENT_DATA)
             ELSE LET t2 == StripFences(t)
                      m  == SearchSelect(t2)
                  IN  IF m = 0 THEN NoneVal
                      ELSE Str(strip(SubSeq(t2, m, Len(t2))))

----------------------------------------------------------------------------
(* Files of the data directory *)

CsvNames == {"a", "b"}

Absent == -1

PathNone == "None"

\* the process environment and the directory listing order do not change
EnvUnchanged == UNCHANGED <<envvars, listOrder>>

\* the largest modification time among the files of a non-empty sequence
MaxMtime(files, mt) ==
    CHOOSE m \in { mt[files[i]] : i \in 1..Len(files) } :
        \A i \in 1..Len(files) : mt[files[i]] <= m

\* _find_latest_csv: files[0] after the stable sort by modification time,
\* newest first, of the listing; PathNone when the directory has no CSV
find_latest_csv(order, mt) ==
    LET files == SelectSeq(order, LAMBDA f : mt[f] # Absent)
    IN  IF files = <<>> THEN PathNone
        ELSE LET m == MaxMtime(files, mt)
                 first == CHOOSE i \in 1..Len(files) :
                              /\ mt[files[i]] = m
                              /\ \A j \in 1..(i - 1) : mt[files[j]] # m
             IN  files[first]

\* the need_build decision with the source strictly newer than the snapshot replaced by at least as new
need_build_notOlder(csv_m, pq_m) ==
    IF pq_m # Absent THEN csv_m >= pq_m ELSE TRUE

\* the need_build decision without the look at the snapshot
need_build_always(csv_m, pq_m) == TRUE

\* need_build of _ensure_parquet
need_build(csv_m, pq_m) ==
    IF pq_m # Absent THEN csv_m > pq_m ELSE TRUE

\* _csv_to_parquet raises: duckdb is missing or the COPY fails on this CSV
csv_to_parquet_raises(good) == ~duckdbInstalled \/ ~good

\* _ensure_parquet: the path returned, whether _csv_to_parquet was called,
\* whether it rebuilt the snapshot, and the snapshot files afterwards
ensure_parquet ==
    LET csv_path == find_latest_csv(listOrder, csvMtime)
    IN  IF csv_path = PathNone
        THEN [csv |-> PathNone, ret |-> PathNone, tried |-> FALSE, built |-> FALSE,
              pq |-> pqMtime]
        ELSE IF need_build(csvMtime[csv_path], pqMtime[csv_path])
             THEN IF csv_to_parquet_raises(csvGood[csv_path])
                  THEN [csv |-> csv_path, ret |-> PathNone, tried |-> TRUE,
                        built |-> FALSE, pq |-> pqMtime]
                  ELSE [csv |-> csv_path, ret |-> csv_path, tried |-> TRUE,
                        built |-> TRUE, pq |-> [pqMtime EXCEPT ![csv_path] = clock]]
             ELSE [csv |-> csv_path, ret |-> csv_path, tried |-> FALSE,
                   built |-> FALSE, pq |-> pqMtime]

----------------------------------------------------------------------------
(* The state of a process before create_app and of a handler between requests *)

NoResponse == [status |-> 0, error |-> "", answer |-> "", source |-> "",
               sql |-> NoneVal, rowcount |-> -1, expected_columns |-> <<>>,
               charts |-> {}]

NoFlags == [pie_chart |-> FALSE, scatter_plot |-> FALSE, histogram |-> FALSE]

NoContext == [columns |-> FALSE, blocks |-> <<>>]

ReqIdle ==
    /\ pc = "idle"
    /\ question = NoneVal
    /\ flags = NoFlags
    /\ context = NoContext
    /\ source = ""
    /\ sql = NoneVal
    /\ invoked = <<>>
    /\ stmts = <<>>
    /\ response = NoResponse

ProcDown ==
    /\ appState = "down"
    /\ PARQUET_PATH = PathNone
    /\ DUCK_CONN = "None"
    /\ view = PathNone
    /\ REQUESTS_TOTAL = 0
    /\ ERRORS_TOTAL = 0

NoQueryOut == [exc |-> "notcalled", columns |-> <<>>, rows |-> <<>>, rowcount |-> -1,
               executed |-> <<>>, view |-> PathNone]

QueryIdle == q_cap = 0 /\ q_out = NoQueryOut

ExtractIdle == text = NoneVal /\ extracted = NotCalled

\* no parser call, no run of normalize_csv, no request thread
AuxIdle ==
    /\ cell = NoneVal
    /\ money = NotCalled
    /\ employees = NotCalled
    /\ fieldnames = <<>>
    /\ raw_rows = <<>>
    /\ n_pos = 0
    /\ rows_in = 0
    /\ rows_out = 0
    /\ written = <<>>
    /\ n_pc = "returned"
    /\ threads = <<>>

----------------------------------------------------------------------------
(* create_app and the end of the process *)

\* create_app: prepare the snapshot, open the connection, define the view
CreateApp ==
    /\ appState = "down"
    /\ Len(ensureLog) < MaxStarts
    /\ LET e == ensure_parquet
       IN  /\ pqMtime' = e.pq
           /\ ensureLog' = Append(ensureLog,
                  [csv |-> e.csv, ret |-> e.ret, tried |-> e.tried, built |-> e.built,
                   epoch |-> srcEpoch,
                   csv_mtime |-> IF e.csv = PathNone THEN Absent ELSE csvMtime[e.csv],
                   pq_mtime |-> IF e.csv = PathNone THEN Absent ELSE pqMtime[e.csv]])
           /\ PARQUET_PATH' = e.ret
           /\ IF e.ret = PathNone
              THEN /\ appState' = "failed"
                   /\ UNCHANGED <<DUCK_CONN, view>>
              ELSE /\ appState' = "up"
                   /\ IF duckdbInstalled
                      THEN DUCK_CONN' = "conn" /\ view' = e.ret
                      ELSE UNCHANGED <<DUCK_CONN, view>>
    /\ UNCHANGED <<clock, csvMtime, csvGood, srcEpoch, REQUESTS_TOTAL, ERRORS_TOTAL>>
    /\ UNCHANGED <<reqvars, qvars, xvars, csvvars, threads>>
    /\ EnvUnchanged

\* the process ends; the next one starts from the module-level initial values
Exit ==
    /\ appState \in {"up", "failed"}
    /\ pc \in {"idle", "done"}
    /\ appState' = "down"
    /\ PARQUET_PATH' = PathNone
    /\ DUCK_CONN' = "None"
    /\ view' = PathNone
    /\ REQUESTS_TOTAL' = 0
    /\ ERRORS_TOTAL' = 0
    /\ pc' = "idle"
    /\ question' = NoneVal
    /\ flags' = NoFlags
    /\ context' = NoContext
    /\ source' = ""
    /\ sql' = NoneVal
    /\ invoked' = <<>>
    /\ stmts' = <<>>
    /\ response' = NoResponse
    /\ UNCHANGED <<clock, csvMtime, pqMtime, csvGood, srcEpoch, ensureLog>>
    /\ UNCHANGED <<qvars, xvars, csvvars, threads>>
    /\ EnvUnchanged

----------------------------------------------------------------------------
(* The environment of the snapshot builder *)

\* time passes
Tick ==
    /\ clock < MaxTime
    /\ clock' = clock + 1
    /\ UNCHANGED <<csvMtime, pqMtime, csvGood, srcEpoch, ensureLog>>
    /\ UNCHANGED <<procvars, reqvars, qvars, xvars, csvvars, threads>>
    /\ EnvUnchanged

\* normalize_csv writes a CSV into the data directory
WriteCsv(f, good) ==
    /\ srcEpoch < MaxWrites
    /\ csvMtime' = [csvMtime EXCEPT ![f] = clock]
    /\ csvGood' = [csvGood EXCEPT ![f] = good]
    /\ srcEpoch' = srcEpoch + 1
    /\ UNCHANGED <<clock, pqMtime, ensureLog>>
    /\ UNCHANGED <<procvars, reqvars, qvars, xvars, csvvars, threads>>
    /\ EnvUnchanged

InitSnapshot ==
    /\ clock = 0
    /\ csvMtime \in [CsvNames -> {Absent, 0}]
    /\ pqMtime \in [CsvNames -> {Absent, 0}]
    /\ csvGood \in [CsvNames -> BOOLEAN]
    /\ listOrder \in {<<"a", "b">>, <<"b", "a">>}
    /\ srcEpoch = 0
    /\ ensureLog = <<>>
    /\ duckdbInstalled \in BOOLEAN
    /\ openaiKey = FALSE
    /\ anthropicKey = FALSE
    /\ ProcDown
    /\ ReqIdle
    /\ QueryIdle
    /\ ExtractIdle
    /\ AuxIdle

NextSnapshot ==
    \/ CreateApp
    \/ Exit
    \/ Tick
    \/ \E f \in CsvNames, good \in BOOLEAN : WriteCsv(f, good)

SpecSnapshot == InitSnapshot /\ [][NextSnapshot]_vars

----------------------------------------------------------------------------
(* Chart keywords of ask *)

PieKw == <<"p", "i", "e">>
ChartKw == <<"c", "h", "a", "r", "t">>
ScatterKw == <<"s", "c", "a", "t", "t", "e", "r">>
PlotKw == <<"p", "l", "o", "t">>
HistogramKw == <<"h", "i", "s", "t", "o", "g", "r", "a", "m">>
DistributionKw == <<"d", "i", "s", "t", "r", "i", "b", "u", "t", "i", "o", "n">>
DistributionsKw == <<"d", "i", "s", "t", "r", "i", "b", "u", "t", "i", "o", "n", "s">>

\* the word w, in any letter case, occupies q[i .. i + Len(w) - 1]
WordAt(q, i, w) ==
    /\ i >= 1
    /\ i + Len(w) - 1 <= Len(q)
    /\ lower(SubSeq(q, i, i + Len(w) - 1)) = w

\* \b of the re module between q[i - 1] and q[i]
BoundaryAt(q, i) ==
    LET before == i > 1 /\ i - 1 <= Len(q) /\ IsWord(q[i - 1])
        after  == i >= 1 /\ i <= Len(q) /\ IsWord(q[i])
    IN  before # after

\* \s* from index i: the index of the first character that is not a space
RECURSIVE SkipSpaces(_, _)
SkipSpaces(q, i) ==
    IF i <= Len(q) /\ IsSpace(q[i]) THEN SkipSpaces(q, i + 1) ELSE i

\* \bw1\s*-?\s*w2\b matches at index i
TwoWordsAt(q, i, w1, w2) ==
    /\ BoundaryAt(q, i)
    /\ WordAt(q, i, w1)
    /\ LET j == SkipSpaces(q, i + Len(w1))
           k == IF j <= Len(q) /\ q[j] = "-" THEN SkipSpaces(q, j + 1) ELSE j
       IN  /\ WordAt(q, k, w2)
           /\ BoundaryAt(q, k + Len(w2))

\* re.search(r"\bw1\s*-?\s*w2\b", q, flags=re.IGNORECASE)
SearchTwoWords(q, w1, w2) == \E i \in 1..Len(q) : TwoWordsAt(q, i, w1, w2)

\* re.search(r"\b(histogram|distribution|distributions)\b", q, flags=re.IGNORECASE)
SearchHistogram(q) ==
    \E i \in 1..Len(q) :
        \E w \in {HistogramKw, DistributionKw, DistributionsKw} :
            /\ BoundaryAt(q, i)
            /\ WordAt(q, i, w)
            /\ BoundaryAt(q, i + Len(w))

\* the three flags ask derives from the question
chart_flags(q) ==
    [pie_chart    |-> SearchTwoWords(q, PieKw, ChartKw),
     scatter_plot |-> SearchTwoWords(q, ScatterKw, PlotKw),
     histogram    |-> SearchHistogram(q)]

\* _sql_prompt_context: the instruction blocks of the context, in order
sql_prompt_context(columns, f) ==
    [columns |-> columns,
     blocks  |-> <<"base">>
                 \o (IF f.pie_chart THEN <<"pie">> ELSE <<>>)
                 \o (IF f.scatter_plot THEN <<"scatter">> ELSE <<>>)
                 \o (IF f.histogram THEN <<"histogram">> ELSE <<>>)]

----------------------------------------------------------------------------
(* The generation backends *)

\* what the HTTP call of a backend ends in
Raises == [kind |-> "raises", txt |-> NoneVal]
HttpError == [kind |-> "http_error", txt |-> NoneVal]
Body(txt) == [kind |-> "body", txt |-> txt]

\* _openai_generate_sql
openai_generate_sql(key, o) ==
    IF ~key THEN NoneVal
    ELSE IF o.kind = "raises" THEN Str(FALLBACK)
    ELSE IF o.kind = "http_error" THEN Str(FALLBACK)
    ELSE extract_sql(o.txt)

\* _anthropic_generate_sql
anthropic_generate_sql(key, o) ==
    IF ~key THEN NoneVal
    ELSE IF o.kind = "raises" THEN Str(FALLBACK)
    ELSE IF o.kind = "http_error" THEN Str(FALLBACK)
    ELSE extract_sql(o.txt)

\* _ollama_duckdb_nsql_generate_sql with the failure value of the other two backends
ollama_duckdb_nsql_generate_sql_fallback(o) ==
    IF o.kind = "raises" THEN Str(FALLBACK)
    ELSE IF o.kind = "http_error" THEN Str(FALLBACK)
    ELSE extract_sql(o.txt)

\* _ollama_duckdb_nsql_generate_sql
ollama_duckdb_nsql_generate_sql(o) ==
    IF o.kind = "raises" THEN NoneVal
    ELSE IF o.kind = "http_error" THEN NoneVal
    ELSE extract_sql(o.txt)

----------------------------------------------------------------------------
(* DuckDB: the statements the connection is given and what they do *)

SelectOne == <<"s", "e", "l", "e", "c", "t", " ", "1">>
SelectAll ==
    <<"s", "e", "l", "e", "c", "t", " ", "*", " ", "f", "r", "o", "m", " ",
      "d", "a", "t", "a">>
LimitKw == <<" ", "l", "i", "m", "i", "t", " ">>
DropView ==
    <<"d", "r", "o", "p", " ", "v", "i", "e", "w", " ", "d", "a", "t", "a">>
ColumnsProbe ==
    <<"S", "E", "L", "E", "C", "T", " ", "*", " ", "F", "R", "O", "M", " ",
      "d", "a", "t", "a", " ", "L", "I", "M", "I", "T", " ", "0">>

DigitSeq == <<"0", "1", "2", "3", "4", "5", "6", "7", "8", "9">>

IsDigit(c) == \E i \in 1..10 : DigitSeq[i] = c

DigitVal(c) == (CHOOSE i \in 1..10 : DigitSeq[i] = c) - 1

\* the rows of the table data, in table order
TableData == [i \in 1..TableRows |-> i]

\* the first n elements of a sequence
Take(rows, n) == SubSeq(rows, 1, IF n < Len(rows) THEN n ELSE Len(rows))

\* text.split(sep) for a one-character separator
RECURSIVE Split(_, _, _)
Split(s, sep, acc) ==
    IF s = <<>> THEN <<acc>>
    ELSE IF Head(s) = sep THEN <<acc>> \o Split(Tail(s), sep, <<>>)
    ELSE Split(Tail(s), sep, Append(acc, Head(s)))

\* one statement run on the connection whose view data selects from v
run_statement(stmt, v) ==
    LET st == lower(strip(stmt))
    IN  IF st = SelectOne
        THEN [ok |-> TRUE, rows |-> <<1>>, columns |-> <<"1">>, view |-> v]
        ELSE IF st = SelectAll /\ v # PathNone
        THEN [ok |-> TRUE, rows |-> TableData, columns |-> <<"c">>, view |-> v]
        ELSE IF /\ v # PathNone
                /\ Len(st) = Len(SelectAll) + Len(LimitKw) + 1
                /\ startswith(st, SelectAll \o LimitKw)
                /\ IsDigit(st[Len(st)])
        THEN [ok |-> TRUE, rows |-> Take(TableData, DigitVal(st[Len(st)])),
              columns |-> <<"c">>, view |-> v]
        ELSE IF st = DropView /\ v # PathNone
        THEN [ok |-> TRUE, rows |-> <<>>, columns |-> <<>>, view |-> PathNone]
        ELSE [ok |-> FALSE, rows |-> <<>>, columns |-> <<>>, view |-> v]

\* the statements of a text run in order; the cursor is that of the last one
RECURSIVE run_statements(_, _, _)
run_statements(parts, v, last) ==
    IF parts = <<>> THEN last
    ELSE IF strip(Head(parts)) = <<>> THEN run_statements(Tail(parts), v, last)
    ELSE LET r == run_statement(Head(parts), v)
         IN  IF r.ok THEN run_statements(Tail(parts), r.view, r) ELSE r

\* DUCK_CONN.execute(sql)
duck_execute(sqltext, v) ==
    run_statements(Split(sqltext, ";", <<>>), v,
                   [ok |-> FALSE, rows |-> <<>>, columns |-> <<>>, view |-> v])

\* fetchmany that takes every row of the cursor
fetchmany_all(rows, size) == rows

\* cur.fetchmany(size): rows are taken one by one until size rows were
\* taken or the cursor is exhausted
RECURSIVE fetchmany(_, _)
fetchmany(rows, size) ==
    IF size <= 0 \/ rows = <<>> THEN <<>>
    ELSE <<Head(rows)>> \o fetchmany(Tail(rows), size - 1)

\* _get_data_columns on an open connection: TRUE when the view gave its columns
get_data_columns(v) == duck_execute(ColumnsProbe, v).ok

----------------------------------------------------------------------------
(* query_parquet *)

DefaultMaxRows == 1000

\* starts_with_select without strip() and lower()
starts_with_select_exact(sqltext) == startswith(sqltext, SelectKw)

\* the read-only guard of query_parquet and of ask
starts_with_select(sqltext) == startswith(lower(strip(sqltext)), SelectKw)

query_parquet(sqltext, max_rows, conn, v) ==
    IF ~duckdbInstalled \/ conn = "None"
    THEN [exc |-> "RuntimeError", columns |-> <<>>, rows |-> <<>>, rowcount |-> -1,
          executed |-> <<>>, view |-> v]
    ELSE IF ~starts_with_select(sqltext)
    THEN [exc |-> "ValueError", columns |-> <<>>, rows |-> <<>>, rowcount |-> -1,
          executed |-> <<>>, view |-> v]
    ELSE LET cur == duck_execute(sqltext, v)
         IN  IF ~cur.ok
             THEN [exc |-> "DuckError", columns |-> <<>>, rows |-> <<>>, rowcount |-> -1,
                   executed |-> <<sqltext>>, view |-> cur.view]
             ELSE LET data == fetchmany(cur.rows, max_rows)
                  IN  [exc |-> "None", columns |-> cur.columns, rows |-> data,
                       rowcount |-> Len(data), executed |-> <<sqltext>>,
                       view |-> cur.view]

----------------------------------------------------------------------------
(* Inputs of the request handlers *)

\* the question of a request body: missing, blank, or a text
Questions ==
    { NoneVal,
      Str(<<" ", " ">>),
      Str(<<"t", "o", "p", " ", "5">>),
      Str(<<"P", "i", "e", "-", "C", "h", "a", "r", "t">>),
      Str(<<"s", "c", "a", "t", "t", "e", "r", " ", "p", "l", "o", "t">>),
      Str(<<"D", "i", "s", "t", "r", "i", "b", "u", "t", "i", "o", "n">>),
      Str(<<"p", "i", "e", " ", "c", "h", "a", "r", "t", " ",
            "h", "i", "s", "t", "o", "g", "r", "a", "m">>),
      Str(<<"p", "i", "e", "c", "h", "a", "r", "t", "s">>) }

\* the text a backend puts in its response body
BackendTexts ==
    { NoneVal,
      Str(<<>>),
      Str(SelectOne),
      Str(<<BT, BT, BT, "s", "q", "l", "\n", "S", "E", "L", "E", "C", "T", " ", "*", " ",
            "F", "R", "O", "M", " ", "d", "a", "t", "a", "\n", BT, BT, BT>>),
      Str(SelectAll \o LimitKw \o <<"2">>),
      Str(<<"I", "n", "s", "u", "f", "f", "i", "c", "i", "e", "n", "t", " ",
            "D", "a", "t", "a">>),
      Str(<<"a", "n", "s", "w", "e", "r", ":", " ", "4", "2">>),
      Str(<<"S", "E", "L", "E", "C", "T", " ", "1", ";"
            , "d", "r", "o", "p", " ", "v", "i", "e", "w", " ", "d", "a", "t", "a">>),
      Str(<<"s", "e", "l", "e", "c", "t", " ", "1", "\n", "t", "h", "a", "n", "k", "s">>) }

Outcomes == { Raises, HttpError } \cup { Body(t) : t \in BackendTexts }

----------------------------------------------------------------------------
(* The ask handler *)

Resp(st, err, ans, src, q, rc, cols, ch) ==
    [status |-> st, error |-> err, answer |-> ans, source |-> src, sql |-> q,
     rowcount |-> rc, expected_columns |-> cols, charts |-> ch]

\* the readiness check without the connection
not_ready_pathOnly == PARQUET_PATH = PathNone

\* the readiness check of ask
not_ready == PARQUET_PATH = PathNone \/ DUCK_CONN = "None"

\* a request reaches ask: _before_request, the readiness check, the question
\* check, the three chart flags and the prompt context
AskBegin(q) ==
    /\ appState = "up"
    /\ pc \in {"idle", "done"}
    /\ REQUESTS_TOTAL < MaxRequests
    /\ REQUESTS_TOTAL' = REQUESTS_TOTAL + 1
    /\ question' = q
    /\ source' = ""
    /\ sql' = NoneVal
    /\ invoked' = <<>>
    /\ IF not_ready
       THEN /\ response' = Resp(503, "parquet_not_ready", "", "", NoneVal, -1, <<>>, {})
            /\ pc' = "done"
            /\ flags' = NoFlags
            /\ context' = NoContext
            /\ stmts' = <<>>
       ELSE IF q.tag # "str" \/ strip(q.s) = <<>>
       THEN /\ response' = Resp(400, "invalid_request", "", "", NoneVal, -1, <<>>, {})
            /\ pc' = "done"
            /\ flags' = NoFlags
            /\ context' = NoContext
            /\ stmts' = <<>>
       ELSE /\ response' = NoResponse
            /\ pc' = "openai"
            /\ flags' = chart_flags(q.s)
            /\ context' = sql_prompt_context(get_data_columns(view), chart_flags(q.s))
            /\ stmts' = <<ColumnsProbe>>
    /\ UNCHANGED <<fsvars, envvars, appState, PARQUET_PATH, DUCK_CONN, view, ERRORS_TOTAL>>
    /\ UNCHANGED <<qvars, xvars, csvvars, threads>>

\* generate_sql_from_question returns (src, r)
Return(src, r) ==
    /\ source' = src
    /\ sql' = r
    /\ pc' = "finish"

\* AfterBackend with an insufficiency answer treated like a failed call
AfterBackend_continueOnInsufficient(name, res0, nextPc) ==
    LET res == IF res0 \in {Str(FALLBACK), Str(INSUFFICIENT_DATA)} THEN NoneVal ELSE res0
    IN  IF IsNonEmptyStr(res)
        THEN Return(name, res)
        ELSE pc' = nextPc /\ UNCHANGED <<source, sql>>

\* AfterBackend without the reset of FALLBACK to None
AfterBackend_noFallbackReset(name, res0, nextPc) ==
    IF res0 = Str(INSUFFICIENT_DATA)
    THEN Return(name, res0)
    ELSE IF IsNonEmptyStr(res0)
         THEN Return(name, res0)
         ELSE pc' = nextPc /\ UNCHANGED <<source, sql>>

\* AfterBackend with a backend that gave nothing called again
AfterBackend_retrySame(name, res0, nextPc) ==
    IF res0 = Str(INSUFFICIENT_DATA)
    THEN Return(name, res0)
    ELSE LET res == IF res0 = Str(FALLBACK) THEN NoneVal ELSE res0
         IN  IF IsNonEmptyStr(res)
             THEN Return(name, res)
             ELSE pc' = name /\ UNCHANGED <<source, sql>>

\* the four lines that follow the call of the openai and of the anthropic backend
AfterBackend(name, res0, nextPc) ==
    IF res0 = Str(INSUFFICIENT_DATA)
    THEN Return(name, res0)
    ELSE LET res == IF res0 = Str(FALLBACK) THEN NoneVal ELSE res0
         IN  IF IsNonEmptyStr(res)
             THEN Return(name, res)
             ELSE pc' = nextPc /\ UNCHANGED <<source, sql>>

ReqFrame ==
    /\ UNCHANGED <<question, flags, context, stmts, response>>
    /\ UNCHANGED <<fsvars, envvars, procvars, qvars, xvars, csvvars, threads>>

\* the record kept of one backend function call: whether an HTTP request was
\* sent, what it ended in, and what the function returned
CallRecord(name, sent, o, res) ==
    [name |-> name, http |-> sent,
     kind |-> IF sent THEN o.kind ELSE "unavailable",
     txt  |-> IF sent THEN o.txt ELSE NoneVal,
     res  |-> res]

\* generate_sql_from_question, first backend
CallOpenAI ==
    /\ pc = "openai"
    /\ \E o \in (IF openaiKey THEN Outcomes ELSE {Raises}) :
           LET res == openai_generate_sql(openaiKey, o)
           IN  /\ invoked' = Append(invoked, CallRecord("openai", openaiKey, o, res))
               /\ AfterBackend("openai", res, "anthropic")
    /\ ReqFrame

\* generate_sql_from_question, second backend
CallAnthropic ==
    /\ pc = "anthropic"
    /\ \E o \in (IF anthropicKey THEN Outcomes ELSE {Raises}) :
           LET res == anthropic_generate_sql(anthropicKey, o)
           IN  /\ invoked' = Append(invoked, CallRecord("anthropic", anthropicKey, o, res))
               /\ AfterBackend("anthropic", res, "ollama")
    /\ ReqFrame

\* CallOllama with the final fallback attributed to the last backend
CallOllama_fallbackNamesBackend ==
    /\ pc = "ollama"
    /\ \E o \in Outcomes :
           LET res == ollama_duckdb_nsql_generate_sql(o)
           IN  /\ invoked' = Append(invoked, CallRecord("ollama-duckdb-nsql", TRUE, o, res))
               /\ IF IsNonEmptyStr(res)
                  THEN Return("ollama-duckdb-nsql", res)
                  ELSE Return("ollama-duckdb-nsql", Str(INSUFFICIENT_DATA))
    /\ ReqFrame

\* generate_sql_from_question, third backend and the final fallback
CallOllama ==
    /\ pc = "ollama"
    /\ \E o \in Outcomes :
           LET res == ollama_duckdb_nsql_generate_sql(o)
           IN  /\ invoked' = Append(invoked, CallRecord("ollama-duckdb-nsql", TRUE, o, res))
               /\ IF IsNonEmptyStr(res)
                  THEN Return("ollama-duckdb-nsql", res)
                  ELSE Return("none", Str(INSUFFICIENT_DATA))
    /\ ReqFrame

\* the expected_columns hint of the response payload
expected_columns(f) ==
    IF f.scatter_plot THEN <<"x", "y">>
    ELSE IF f.pie_chart THEN <<"label", "pct">>
    ELSE IF f.histogram THEN <<"bin", "n">>
    ELSE <<>>

\* the chart keys of the response payload
chart_keys(f) ==
    (IF f.pie_chart THEN {"pie_chart"} ELSE {})
    \cup (IF f.scatter_plot THEN {"scatter_plot"} ELSE {})
    \cup (IF f.histogram /\ ~f.pie_chart /\ ~f.scatter_plot THEN {"histogram"} ELSE {})

\* ask after generate_sql_from_question returned: the answer, the guards,
\* the query and the response
AskFinish ==
    /\ pc = "finish"
    /\ pc' = "done"
    /\ IF sql = Str(INSUFFICIENT_DATA)
       THEN /\ response' = Resp(200, "", "insufficient data", source, NoneVal, -1, <<>>, {})
            /\ UNCHANGED <<view, stmts>>
       ELSE IF sql.tag # "str" \/ strip(sql.s) = <<>>
       THEN /\ response' = Resp(502, "llm_failed", "", "", NoneVal, -1, <<>>, {})
            /\ UNCHANGED <<view, stmts>>
       ELSE IF ~starts_with_select(sql.s)
       THEN /\ response' = Resp(400, "bad_query", "", "", NoneVal, -1, <<>>, {})
            /\ UNCHANGED <<view, stmts>>
       ELSE LET r == query_parquet(sql.s, DefaultMaxRows, DUCK_CONN, view)
            IN  /\ view' = r.view
                /\ stmts' = stmts \o r.executed
                /\ response' =
                       IF r.exc = "ValueError"
                       THEN Resp(400, "bad_query", "", "", NoneVal, -1, <<>>, {})
                       ELSE IF r.exc # "None"
                       THEN Resp(500, "internal_error", "", "", NoneVal, -1, <<>>, {})
                       ELSE Resp(200, "", "", source, sql, r.rowcount,
                                 expected_columns(flags), chart_keys(flags))
    /\ UNCHANGED <<question, flags, context, source, sql, invoked>>
    /\ UNCHANGED <<fsvars, envvars, appState, PARQUET_PATH, DUCK_CONN,
                   REQUESTS_TOTAL, ERRORS_TOTAL>>
    /\ UNCHANGED <<qvars, xvars, csvvars, threads>>

\* a request for a path without a route: _before_request, then _handle_error
NotFound ==
    /\ appState = "up"
    /\ pc \in {"idle", "done"}
    /\ REQUESTS_TOTAL < MaxRequests
    /\ REQUESTS_TOTAL' = REQUESTS_TOTAL + 1
    /\ ERRORS_TOTAL' = ERRORS_TOTAL + 1
    /\ UNCHANGED <<fsvars, envvars, appState, PARQUET_PATH, DUCK_CONN, view>>
    /\ UNCHANGED <<reqvars, qvars, xvars, csvvars, threads>>

----------------------------------------------------------------------------
(* The service: one process start, then requests *)

Init ==
    /\ clock = 1
    /\ \/ /\ csvMtime = [f \in CsvNames |-> Absent]
          /\ pqMtime = [f \in CsvNames |-> Absent]
       \/ /\ csvMtime = [f \in CsvNames |-> IF f = "a" THEN 0 ELSE Absent]
          /\ pqMtime \in { [f \in CsvNames |-> Absent],
                           [f \in CsvNames |-> IF f = "a" THEN 0 ELSE Absent] }
    /\ csvGood = [f \in CsvNames |-> TRUE]
    /\ listOrder = <<"a", "b">>
    /\ srcEpoch = 0
    /\ ensureLog = <<>>
    /\ duckdbInstalled \in BOOLEAN
    /\ openaiKey \in BOOLEAN
    /\ anthropicKey \in BOOLEAN
    /\ ProcDown
    /\ ReqIdle
    /\ QueryIdle
    /\ ExtractIdle
    /\ AuxIdle

Next ==
    \/ CreateApp
    \/ \E q \in Questions : AskBegin(q)
    \/ CallOpenAI
    \/ CallAnthropic
    \/ CallOllama
    \/ AskFinish
    \/ NotFound

Spec == Init /\ [][Next]_vars

----------------------------------------------------------------------------
(* query_parquet and the tail of ask on arbitrary statements *)

\* values handed to query_parquet, or returned by generate_sql_from_question
QuerySqls ==
    { NoneVal,
      Str(<<>>),
      Str(<<" ", " ">>),
      Str(INSUFFICIENT_DATA),
      Str(FALLBACK),
      Str(<<"u", "p", "d", "a", "t", "e", " ", "d", "a", "t", "a">>),
      Str(<<"i", "n", "s", "e", "r", "t", " ", "1">>),
      Str(<<"D", "R", "O", "P", " ", "v", "i", "e", "w", " ", "d", "a", "t", "a">>),
      Str(<<" ", "\n", "d", "r", "o", "p", " ", "v", "i", "e", "w", " ", "d", "a", "t", "a">>),
      Str(<<" ", "S", "e", "l", "e", "c", "t", " ", "1", " ">>),
      Str(SelectAll),
      Str(SelectAll \o LimitKw \o <<"2">>),
      Str(SelectAll \o LimitKw \o <<"0">>),
      Str(<<"s", "e", "l", "e", "c", "t", " ", "1", "\n", "t", "h", "a", "n", "k", "s">>) }

AllFlags ==
    [pie_chart : BOOLEAN, scatter_plot : BOOLEAN, histogram : BOOLEAN]

\* one direct call of query_parquet(sql, max_rows=q_cap)
QueryCall ==
    /\ pc = "idle"
    /\ sql.tag = "str"
    /\ q_out = NoQueryOut
    /\ q_out' = query_parquet(sql.s, q_cap, DUCK_CONN, view)
    /\ view' = q_out'.view
    /\ UNCHANGED <<q_cap, appState, PARQUET_PATH, DUCK_CONN, REQUESTS_TOTAL, ERRORS_TOTAL>>
    /\ UNCHANGED <<fsvars, envvars, reqvars, xvars, csvvars, threads>>

InitQuery ==
    /\ clock = 1
    /\ csvMtime = [f \in CsvNames |-> IF f = "a" THEN 0 ELSE Absent]
    /\ pqMtime = [f \in CsvNames |-> IF f = "a" THEN 0 ELSE Absent]
    /\ csvGood = [f \in CsvNames |-> TRUE]
    /\ listOrder = <<"a", "b">>
    /\ srcEpoch = 0
    /\ ensureLog = <<[csv |-> "a", ret |-> "a", tried |-> FALSE, built |-> FALSE,
                      epoch |-> 0, csv_mtime |-> 0, pq_mtime |-> 0]>>
    /\ duckdbInstalled \in BOOLEAN
    /\ openaiKey = TRUE
    /\ anthropicKey = TRUE
    /\ appState = "up"
    /\ PARQUET_PATH = "a"
    /\ DUCK_CONN = IF duckdbInstalled THEN "conn" ELSE "None"
    /\ view = IF duckdbInstalled THEN "a" ELSE PathNone
    /\ REQUESTS_TOTAL = 1
    /\ ERRORS_TOTAL = 0
    /\ sql \in QuerySqls
    /\ question = Str(<<"t", "o", "p", " ", "5">>)
    /\ context = NoContext
    /\ invoked = <<>>
    /\ response = NoResponse
    /\ q_out = NoQueryOut
    /\ \/ /\ pc = "idle"
          /\ q_cap \in 0..MaxCap
          /\ flags = NoFlags
          /\ source = ""
          /\ stmts = <<>>
       \/ /\ pc = "finish"
          /\ duckdbInstalled
          /\ q_cap = 0
          /\ flags \in AllFlags
          /\ source \in {"openai", "ollama-duckdb-nsql", "none"}
          /\ stmts = <<ColumnsProbe>>
    /\ ExtractIdle
    /\ AuxIdle

NextQuery ==
    \/ QueryCall
    \/ AskFinish

SpecQuery == InitQuery /\ [][NextQuery]_vars

----------------------------------------------------------------------------
(* Raw completions for the extractor harness: up to MaxFrags fragments *)

Fragments ==
    { InsufficientLiteral,
      <<"I", "n", "s", "u", "f", "f", "i", "c", "i", "e", "n", "t", " ", "D", "A", "T", "A">>,
      <<"i", "n", "s", "u", "f", "f", "i", "c", "i", "e", "n", "t">>,
      <<"d", "a", "t", "a">>,
      Fence,
      <<BT, BT, BT, "s", "q", "l">>,
      <<BT, BT, BT, "S", "Q", "L", "\n">>,
      SelectKw,
      <<"S", "e", "L", "E", "C", "T">>,
      <<"e", "d">>,
      <<"p", "r", "e">>,
      <<" ", "1">>,
      <<" ">>,
      <<"\n">> }

RECURSIVE Concat(_)
Concat(fs) == IF fs = <<>> THEN <<>> ELSE Head(fs) \o Concat(Tail(fs))

RawTexts ==
    { Concat(fs) : fs \in UNION { [1..n -> Fragments] : n \in 0..MaxFrags } }

InitExtract ==
    /\ text \in { Str(s) : s \in RawTexts } \cup { NoneVal }
    /\ extracted = NotCalled
    /\ clock = 0
    /\ csvMtime = [f \in CsvNames |-> Absent]
    /\ pqMtime = [f \in CsvNames |-> Absent]
    /\ csvGood = [f \in CsvNames |-> TRUE]
    /\ listOrder = <<"a", "b">>
    /\ srcEpoch = 0
    /\ ensureLog = <<>>
    /\ duckdbInstalled = TRUE
    /\ openaiKey = FALSE
    /\ anthropicKey = FALSE
    /\ ProcDown
    /\ ReqIdle
    /\ QueryIdle
    /\ AuxIdle

\* one call of _extract_sql on the harness text
Extract ==
    /\ extracted = NotCalled
    /\ extracted' = extract_sql(text)
    /\ UNCHANGED text
    /\ UNCHANGED <<fsvars, envvars, procvars, reqvars, qvars, csvvars, threads>>

NextExtract == Extract

SpecExtract == InitExtract /\ [][NextExtract]_vars

----------------------------------------------------------------------------
(* Natural numbers of any size (Python int): the digits of the number in   *)
(* base Base, least significant first, without a leading zero digit; zero  *)
(* is the empty sequence                                                   *)

LimbBits == 15

Base == 2 ^ LimbBits

RECURSIVE LNorm(_)
LNorm(a) ==
    IF a # <<>> /\ a[Len(a)] = 0 THEN LNorm(SubSeq(a, 1, Len(a) - 1)) ELSE a

RECURSIVE LAddC(_, _, _)
LAddC(a, b, c) ==
    IF a = <<>> /\ b = <<>>
    THEN IF c = 0 THEN <<>> ELSE <<c>>
    ELSE LET x == IF a = <<>> THEN 0 ELSE a[1]
             y == IF b = <<>> THEN 0 ELSE b[1]
             s == x + y + c
         IN  <<s % Base>> \o LAddC(IF a = <<>> THEN a ELSE Tail(a),
                                   IF b = <<>> THEN b ELSE Tail(b),
                                   s \div Base)

\* a * f + c for f and c below Base
RECURSIVE LMulSmallC(_, _, _)
LMulSmallC(a, f, c) ==
    IF a = <<>>
    THEN IF c = 0 THEN <<>> ELSE <<c>>
    ELSE LET t == a[1] * f + c
         IN  <<t % Base>> \o LMulSmallC(Tail(a), f, t \div Base)

LMulSmall(a, f, c) == LNorm(LMulSmallC(a, f, c))

RECURSIVE LMul(_, _)
LMul(a, b) ==
    IF b = <<>>
    THEN <<>>
    ELSE LET rest == LMul(a, Tail(b))
         IN  LAddC(LMulSmall(a, b[1], 0), IF rest = <<>> THEN rest ELSE <<0>> \o rest, 0)

\* the digits i..Len(a) of a divided by d, for 0 < d <= Base: quotient digits and remainder
RECURSIVE LDivFrom(_, _, _)
LDivFrom(a, d, i) ==
    IF i > Len(a)
    THEN [q |-> <<>>, r |-> 0]
    ELSE LET p == LDivFrom(a, d, i + 1)
             t == p.r * Base + a[i]
         IN  [q |-> <<t \div d>> \o p.q, r |-> t % d]

\* divmod(a, d) for 0 < d <= Base
LDivSmall(a, d) ==
    LET p == LDivFrom(a, d, 1) IN [q |-> LNorm(p.q), r |-> p.r]

\* a // 10^k, and whether a remainder was dropped
RECURSIVE LDiv10(_, _)
LDiv10(a, k) ==
    IF k = 0
    THEN [q |-> a, sticky |-> FALSE]
    ELSE LET p == LDiv10(a, k - 1)
             d == LDivSmall(p.q, 10)
         IN  [q |-> d.q, sticky |-> p.sticky \/ d.r # 0]

RECURSIVE LPow10(_)
LPow10(k) == IF k = 0 THEN <<1>> ELSE LMulSmall(LPow10(k - 1), 10, 0)

\* a.bit_length()
LBitLen(a) ==
    IF a = <<>>
    THEN 0
    ELSE LimbBits * (Len(a) - 1)
           + (CHOOSE k \in 1..LimbBits : 2 ^ (k - 1) <= a[Len(a)] /\ a[Len(a)] < 2 ^ k)

\* a << n
LShl(a, n) ==
    IF a = <<>>
    THEN a
    ELSE [i \in 1..(n \div LimbBits) |-> 0] \o LMulSmall(a, 2 ^ (n % LimbBits), 0)

\* a >> n, and whether a one bit was dropped
LShr(a, n) ==
    LET w == IF n \div LimbBits < Len(a) THEN n \div LimbBits ELSE Len(a)
        d == LDivSmall(SubSeq(a, w + 1, Len(a)), 2 ^ (n % LimbBits))
    IN  [q |-> d.q, sticky |-> d.r # 0 \/ \E i \in 1..w : a[i] # 0]

\* int(ds) for a sequence of decimal digit characters, acc the value so far
RECURSIVE LOfDigits(_, _)
LOfDigits(ds, acc) ==
    IF ds = <<>>
    THEN acc
    ELSE LOfDigits(Tail(ds), LMulSmall(acc, 10, DigitVal(Head(ds))))

\* the decimal digits of a > 0
RECURSIVE LDecimal(_)
LDecimal(a) ==
    IF a = <<>>
    THEN <<>>
    ELSE LET d == LDivSmall(a, 10)
         IN  LDecimal(d.q) \o <<DigitSeq[d.r + 1]>>

\* str(n) for an int n >= 0
str_of_int(a) == IF a = <<>> THEN <<"0">> ELSE LDecimal(a)

----------------------------------------------------------------------------
(* Python float (IEEE 754 binary64, round to nearest, ties to even) for    *)
(* the values the parser computes: [m, e] is m * 2^e with m below 2^53 or  *)
(* equal to it. The exponent range is not modelled: a number of a few      *)
(* characters times 10^12 is far from overflow and from underflow.         *)

MantissaBits == 53

\* q2 / 2 rounded to an integer, ties to even; sticky: q2 stands for a little more than q2
RoundHalfEven(q2, sticky) ==
    LET d == LDivSmall(q2, 2)
        up == LAddC(d.q, <<1>>, 0)
    IN  IF d.r = 0 THEN d.q
        ELSE IF sticky THEN up
        ELSE IF d.q # <<>> /\ (d.q[1] % 2) = 1 THEN up
        ELSE d.q

\* the float nearest to n / 10^k, tried with exponent e: t is
\* 2 * n / (10^k * 2^e) rounded down, and whether a remainder was dropped
RECURSIVE FloatQuot(_, _, _)
FloatQuot(n, k, e) ==
    LET s == LShr(n, e - 1)
        d == LDiv10(s.q, k)
        t == IF e <= 1
             THEN LDiv10(LShl(n, 1 - e), k)
             ELSE [q |-> d.q, sticky |-> s.sticky \/ d.sticky]
        len == LBitLen(t.q)
    IN  IF len > MantissaBits + 1 THEN FloatQuot(n, k, e + 1)
        ELSE IF len < MantissaBits + 1 THEN FloatQuot(n, k, e - 1)
        ELSE [m |-> RoundHalfEven(t.q, t.sticky), e |-> e]

\* x * f for a float x and an int f below 2^53 (converted to float exactly)
float_mul(x, f) ==
    LET p == LMul(x.m, f)
        s == LBitLen(p) - MantissaBits
    IN  IF s <= 0
        THEN [m |-> p, e |-> x.e]
        ELSE LET t == LShr(p, s - 1)
             IN  [m |-> RoundHalfEven(t.q, t.sticky), e |-> x.e + s]

\* int(x) for a float x >= 0
int_of_float(x) == IF x.e >= 0 THEN LShl(x.m, x.e) ELSE LShr(x.m, 0 - x.e).q

----------------------------------------------------------------------------
(* normalize_csv.py: the cell parsers *)

\* the em-dash character (one character of a Python str)
EMDASH == "<em-dash>"

EmptyWords ==
    { <<"n", "a", "n">>, <<"n", "a">>, <<"n", "/", "a">>, <<EMDASH>>, <<"-">> }

\* s.replace(c, "") for every c of chars
Remove(s, chars) == SelectSeq(s, LAMBDA c : c \notin chars)

\* number of characters of s from index i on that are decimal digits
RECURSIVE DigitRun(_, _)
DigitRun(s, i) ==
    IF i <= Len(s) /\ IsDigit(s[i]) THEN 1 + DigitRun(s, i + 1) ELSE 0

\* length of the match of ([0-9]*\.?[0-9]+) at the start of s, 0 without a match
num_match(s) ==
    LET d1 == DigitRun(s, 1)
        d2 == IF d1 + 1 <= Len(s) /\ s[d1 + 1] = "."
              THEN DigitRun(s, d1 + 2)
              ELSE 0
    IN  IF d2 > 0 THEN d1 + 1 + d2 ELSE d1

\* index of the letter of _NUM_SUFFIX_RE.match(s), 0 without a match
suffix_match(s) ==
    LET n == num_match(s)
        j == SkipSpaces(s, n + 1)
        letter == \E i \in 1..26 : s[j] = UpperLetters[i] \/ s[j] = LowerLetters[i]
    IN  IF n > 0 /\ j <= Len(s) /\ letter THEN j ELSE 0

\* the exponent of ten of factor
factor_exp(suffix) ==
    IF suffix = "t" THEN 12
    ELSE IF suffix = "b" THEN 9
    ELSE IF suffix = "m" THEN 6
    ELSE 0

\* float(num_part)
float_of_text(num_part) ==
    LET n == LOfDigits(Remove(num_part, {"."}), <<>>)
        point == IF \E i \in 1..Len(num_part) : num_part[i] = "."
                 THEN CHOOSE i \in 1..Len(num_part) : num_part[i] = "."
                 ELSE Len(num_part)
        k == Len(num_part) - point
    IN  IF n = <<>>
        THEN [m |-> <<>>, e |-> 0]
        ELSE FloatQuot(n, k, LBitLen(n) - LBitLen(LPow10(k)) - MantissaBits)

\* parse_money_to_int; the last lines are val = float(num_part) * factor and str(int(val))
parse_money_to_int(value) ==
    IF value.tag = "None"
    THEN <<>>
    ELSE LET s0 == strip(value.s)
         IN  IF s0 = <<>> \/ lower(s0) \in EmptyWords
             THEN <<>>
             ELSE LET s == lower(Remove(s0, {"$", ",", " "}))
                      n == num_match(s)
                      j == suffix_match(s)
                  IN  IF n = 0
                      THEN <<>>
                      ELSE LET num == float_of_text(SubSeq(s, 1, n))
                               factor == LPow10(factor_exp(IF j > 0 THEN s[j] ELSE ""))
                           IN  str_of_int(int_of_float(float_mul(num, factor)))

\* str(int(s)) for s matching [-+]?\d+
int_text(s) ==
    LET signed == s[1] \in {"-", "+"}
        digits == IF signed THEN Tail(s) ELSE s
        n == LOfDigits(digits, <<>>)
    IN  IF s[1] = "-" /\ n # <<>>
        THEN <<"-">> \o str_of_int(n)
        ELSE str_of_int(n)

\* re.fullmatch(r"[-+]?\d+", s)
employees_match(s) ==
    LET start == IF s # <<>> /\ s[1] \in {"-", "+"} THEN 2 ELSE 1
    IN  DigitRun(s, start) > 0 /\ start - 1 + DigitRun(s, start) = Len(s)

\* without s.replace(",", "")
parse_employees_to_int_keepCommas(value) ==
    IF value.tag = "None"
    THEN <<>>
    ELSE LET s == strip(value.s)
         IN  IF employees_match(s) THEN int_text(s) ELSE <<>>

parse_employees_to_int(value) ==
    IF value.tag = "None"
    THEN <<>>
    ELSE LET s == Remove(strip(value.s), {","})
         IN  IF employees_match(s) THEN int_text(s) ELSE <<>>

----------------------------------------------------------------------------
(* Cell texts for the parsers: up to MaxCellFrags fragments, and the texts *)
(* of the documentation                                                    *)

CellFragments ==
    { <<"$">>, <<"4">>, <<"1">>, <<"0">>, <<".">>, <<",">>, <<" ">>, <<"m">>, <<"-">> }

CellTexts ==
    { Concat(fs) : fs \in UNION { [1..n -> CellFragments] : n \in 0..MaxCellFrags } }
        \cup
    { <<"$", "1", ".", "2", "B">>,
      <<"2", ",", "5", "0", "0", ",", "0", "0", "0">>,
      <<"3", ".", "4", "m">>,
      <<EMDASH>>,
      <<"N", "a", "N">>,
      <<"n", "/", "a">>,
      <<"1", ".", "5", "t">>,
      <<"5", "k">>,
      <<"1", ",", "2", "3", "4">>,
      <<"1", "2", "a">>,
      <<"+", "5">>,
      <<"-", "0", "0", "7">> }

InitCells ==
    /\ cell \in { Str(s) : s \in CellTexts } \cup { NoneVal }
    /\ money = NotCalled
    /\ employees = NotCalled
    /\ fieldnames = <<>>
    /\ raw_rows = <<>>
    /\ n_pos = 0
    /\ rows_in = 0
    /\ rows_out = 0
    /\ written = <<>>
    /\ n_pc = "returned"
    /\ threads = <<>>
    /\ text = NoneVal
    /\ extracted = NotCalled
    /\ clock = 0
    /\ csvMtime = [f \in CsvNames |-> Absent]
    /\ pqMtime = [f \in CsvNames |-> Absent]
    /\ csvGood = [f \in CsvNames |-> TRUE]
    /\ listOrder = <<"a", "b">>
    /\ srcEpoch = 0
    /\ ensureLog = <<>>
    /\ duckdbInstalled = TRUE
    /\ openaiKey = FALSE
    /\ anthropicKey = FALSE
    /\ ProcDown
    /\ ReqIdle
    /\ QueryIdle

\* one call of each parser on the harness cell
ParseCell ==
    /\ money = NotCalled
    /\ money' = Str(parse_money_to_int(cell))
    /\ employees' = Str(parse_employees_to_int(cell))
    /\ UNCHANGED <<cell, fieldnames, raw_rows, n_pos, rows_in, rows_out, written, n_pc>>
    /\ UNCHANGED <<fsvars, envvars, procvars, reqvars, qvars, xvars, threads>>

NextCells == ParseCell

SpecCells == InitCells /\ [][NextCells]_vars

----------------------------------------------------------------------------
(* normalize_csv.py: normalize_csv on the rows csv.reader yields for the   *)
(* input file. The header has distinct names, so a row dict is given by    *)
(* the value of every header position and by whether it has the key None.  *)

MoneyColumns == {"Total Funding", "ARR", "Valuation"}

\* the lines after the header: from no cell (a blank line) to one cell too many
RawRows(header) ==
    UNION { [1..n -> { <<"4", ".", "1", "m">>, <<"1", ",", "2">> }] :
                n \in 0..(Len(header) + 1) }

\* csv.DictReader: the row dict of a line; restkey and restval are None
dict_row(header, line) ==
    [ cells |-> [i \in 1..Len(header) |->
                    IF i <= Len(line) THEN Str(line[i]) ELSE NoneVal],
      rest |-> Len(line) > Len(header) ]

\* the column rewrites of the loop body
rewrite_row(header, row) ==
    [ row EXCEPT !.cells =
        [i \in 1..Len(header) |->
            IF header[i] \in MoneyColumns
            THEN Str(parse_money_to_int(row.cells[i]))
            ELSE IF header[i] = "Employees"
            THEN Str(parse_employees_to_int(row.cells[i]))
            ELSE row.cells[i]] ]

\* csv.DictWriter.writerow with extrasaction "raise": a key outside fieldnames.
\* Otherwise it writes the value of every header position, None as the empty text.
writerow_raises(row) == row.rest

\* the reader skips blank lines: index of the next line with cells after pos, 0 at the end
next_line(rows, pos) ==
    IF \E i \in (pos + 1)..Len(rows) : rows[i] # <<>>
    THEN CHOOSE i \in (pos + 1)..Len(rows) :
            rows[i] # <<>> /\ \A j \in (pos + 1)..(i - 1) : rows[j] = <<>>
    ELSE 0

\* one iteration of for row in reader
NormalizeRow ==
    /\ n_pc = "loop"
    /\ next_line(raw_rows, n_pos) # 0
    /\ LET p == next_line(raw_rows, n_pos)
           row == rewrite_row(fieldnames, dict_row(fieldnames, raw_rows[p]))
       IN  /\ n_pos' = p
           /\ rows_in' = rows_in + 1
           /\ IF writerow_raises(row)
              THEN /\ n_pc' = "raised"
                   /\ UNCHANGED <<written, rows_out>>
              ELSE /\ written' = Append(written,
                                       [i \in 1..Len(fieldnames) |-> row.cells[i].s])
                   /\ rows_out' = rows_out + 1
                   /\ UNCHANGED n_pc
    /\ UNCHANGED <<fieldnames, raw_rows, cell, money, employees>>
    /\ UNCHANGED <<fsvars, envvars, procvars, reqvars, qvars, xvars, threads>>

\* the reader is exhausted: return rows_in, rows_out
NormalizeReturn ==
    /\ n_pc = "loop"
    /\ next_line(raw_rows, n_pos) = 0
    /\ n_pc' = "returned"
    /\ n_pos' = Len(raw_rows)
    /\ UNCHANGED <<fieldnames, raw_rows, rows_in, rows_out, written, cell, money, employees>>
    /\ UNCHANGED <<fsvars, envvars, procvars, reqvars, qvars, xvars, threads>>

InitNormalize ==
    /\ fieldnames \in { <<"Name", "ARR">>, <<"ARR", "Employees">> }
    /\ raw_rows \in UNION { [1..n -> RawRows(fieldnames)] : n \in 0..MaxCsvRows }
    /\ n_pos = 0
    /\ rows_in = 0
    /\ rows_out = 0
    /\ written = <<>>
    /\ n_pc = "loop"
    /\ cell = NoneVal
    /\ money = NotCalled
    /\ employees = NotCalled
    /\ threads = <<>>
    /\ ExtractIdle
    /\ clock = 0
    /\ csvMtime = [f \in CsvNames |-> Absent]
    /\ pqMtime = [f \in CsvNames |-> Absent]
    /\ csvGood = [f \in CsvNames |-> TRUE]
    /\ listOrder = <<"a", "b">>
    /\ srcEpoch = 0
    /\ ensureLog = <<>>
    /\ duckdbInstalled = TRUE
    /\ openaiKey = FALSE
    /\ anthropicKey = FALSE
    /\ ProcDown
    /\ ReqIdle
    /\ QueryIdle

NextNormalize == NormalizeRow \/ NormalizeReturn

SpecNormalize == InitNormalize /\ [][NextNormalize]_vars

----------------------------------------------------------------------------
(* Requests handled at the same time by the threads of one process: the    *)
(* statement X += 1 on a module global is a load of X followed by a store  *)

ThreadFrame ==
    /\ UNCHANGED <<appState, PARQUET_PATH, DUCK_CONN, view>>
    /\ UNCHANGED <<fsvars, envvars, reqvars, qvars, xvars, csvvars>>

\* _before_request: REQUESTS_TOTAL += 1, the load
LoadRequestsTotal(t) ==
    /\ threads[t].pc = "start"
    /\ threads' = [threads EXCEPT ![t].pc = "loaded_requests", ![t].tmp = REQUESTS_TOTAL]
    /\ UNCHANGED <<REQUESTS_TOTAL, ERRORS_TOTAL>>
    /\ ThreadFrame

\* _before_request: REQUESTS_TOTAL += 1, the store
StoreRequestsTotal(t) ==
    /\ threads[t].pc = "loaded_requests"
    /\ REQUESTS_TOTAL' = threads[t].tmp + 1
    /\ threads' = [threads EXCEPT ![t].pc = "route"]
    /\ UNCHANGED ERRORS_TOTAL
    /\ ThreadFrame

\* the view function of a route returns its response
RouteReturns(t) ==
    /\ threads[t].pc = "route"
    /\ threads[t].kind = "healthz"
    /\ threads' = [threads EXCEPT ![t].pc = "done"]
    /\ UNCHANGED <<REQUESTS_TOTAL, ERRORS_TOTAL>>
    /\ ThreadFrame

\* no route matches: _handle_error, ERRORS_TOTAL += 1, the load
LoadErrorsTotal(t) ==
    /\ threads[t].pc = "route"
    /\ threads[t].kind = "notfound"
    /\ threads' = [threads EXCEPT ![t].pc = "loaded_errors", ![t].tmp = ERRORS_TOTAL]
    /\ UNCHANGED <<REQUESTS_TOTAL, ERRORS_TOTAL>>
    /\ ThreadFrame

\* _handle_error: ERRORS_TOTAL += 1, the store, and the 500 response
StoreErrorsTotal(t) ==
    /\ threads[t].pc = "loaded_errors"
    /\ ERRORS_TOTAL' = threads[t].tmp + 1
    /\ threads' = [threads EXCEPT ![t].pc = "done"]
    /\ UNCHANGED REQUESTS_TOTAL
    /\ ThreadFrame

InitThreads ==
    /\ threads \in [1..MaxThreads ->
                      { [kind |-> k, pc |-> "start", tmp |-> 0] : k \in {"healthz", "notfound"} }]
    /\ appState = "up"
    /\ PARQUET_PATH = "a"
    /\ DUCK_CONN = "conn"
    /\ view = "a"
    /\ REQUESTS_TOTAL = 0
    /\ ERRORS_TOTAL = 0
    /\ clock = 1
    /\ csvMtime = [f \in CsvNames |-> IF f = "a" THEN 0 ELSE Absent]
    /\ pqMtime = [f \in CsvNames |-> IF f = "a" THEN 0 ELSE Absent]
    /\ csvGood = [f \in CsvNames |-> TRUE]
    /\ listOrder = <<"a", "b">>
    /\ srcEpoch = 0
    /\ ensureLog = <<[csv |-> "a", ret |-> "a", tried |-> FALSE, built |-> FALSE,
                      epoch |-> 0, csv_mtime |-> 0, pq_mtime |-> 0]>>
    /\ duckdbInstalled = TRUE
    /\ openaiKey = FALSE
    /\ anthropicKey = FALSE
    /\ ReqIdle
    /\ QueryIdle
    /\ ExtractIdle
    /\ cell = NoneVal
    /\ money = NotCalled
    /\ employees = NotCalled
    /\ fieldnames = <<>>
    /\ raw_rows = <<>>
    /\ n_pos = 0
    /\ rows_in = 0
    /\ rows_out = 0
    /\ written = <<>>
    /\ n_pc = "returned"

NextThreads ==
    \E t \in 1..MaxThreads :
        \/ LoadRequestsTotal(t)
        \/ StoreRequestsTotal(t)
        \/ RouteReturns(t)
        \/ LoadErrorsTotal(t)
        \/ StoreErrorsTotal(t)

SpecThreads == InitThreads /\ [][NextThreads]_vars

----------------------------------------------------------------------------
(* Properties of the output extractor (SpecExtract) *)

\* the literal "insufficient data" occurs in s in some letter case
HasInsufficientLiteral(s) ==
    \E i \in 1..Len(s) :
        /\ i + Len(InsufficientLiteral) - 1 <= Len(s)
        /\ \A j \in 1..Len(InsufficientLiteral) :
               LowerChar(s[i + j - 1]) = InsufficientLiteral[j]

\* the letters s,e,l,e,c,t occur in t at index i in some letter case
SelectSubstringAt(t, i) ==
    /\ i + 5 <= Len(t)
    /\ \A j \in 1..6 : LowerChar(t[i + j - 1]) = SelectKw[j]

\* C5: every text that contains the literal "insufficient data" in any
\* letter case, anywhere, is extracted as Insufficient, also when it holds a
\* code fence or a select statement.
C5_InsufficientLiteralWins ==
    (extracted # NotCalled /\ text.tag = "str" /\ HasInsufficientLiteral(text.s))
        => extracted = Str(INSUFFICIENT_DATA)

\* C5 witness: a fenced text with a select statement and the literal in mixed
\* case was extracted as Insufficient
C5_Witness ==
    /\ extracted = Str(INSUFFICIENT_DATA)
    /\ text.tag = "str"
    /\ startswith(text.s, Fence)
    /\ \E i \in 1..Len(text.s) : SelectMatchAt(text.s, i)
    /\ HasInsufficientLiteral(text.s)
    /\ ~Contains(text.s, InsufficientLiteral)

\* C6 as stated: without the literal, the result is Unparseable when the
\* letters of select occur nowhere, and otherwise the trimmed text from the
\* first place they occur to the end of the fence-stripped text.
C6_FirstSelectOccurrence ==
    (extracted # NotCalled /\ text.tag = "str" /\ ~HasInsufficientLiteral(text.s))
        => LET t2  == StripFences(strip(text.s))
               occ == { i \in 1..Len(t2) : SelectSubstringAt(t2, i) }
           IN  IF occ = {}
               THEN extracted = NoneVal
               ELSE LET first == CHOOSE i \in occ : \A j \in occ : i <= j
                    IN  extracted = Str(strip(SubSeq(t2, first, Len(t2))))

\* C6 amended: without the literal, the result is Unparseable when select
\* occurs nowhere as a word end (its t not followed by a letter, digit or
\* underscore), and otherwise the trimmed text from the first such occurrence
\* to the end of the fence-stripped text, later lines included.
C6_FirstSelectWordEnd ==
    (extracted # NotCalled /\ text.tag = "str" /\ ~HasInsufficientLiteral(text.s))
        => LET t2  == StripFences(strip(text.s))
               occ == { i \in 1..Len(t2) :
                          /\ SelectSubstringAt(t2, i)
                          /\ (i + 6 > Len(t2) \/ ~IsWord(t2[i + 6])) }
           IN  IF occ = {}
               THEN extracted = NoneVal
               ELSE LET first == CHOOSE i \in occ : \A j \in occ : i <= j
                    IN  extracted = Str(strip(SubSeq(t2, first, Len(t2))))

\* C6 witness: a fenced text whose statement runs past the keyword was
\* extracted as a statement
C6_Witness ==
    /\ extracted.tag = "str"
    /\ extracted.s # INSUFFICIENT_DATA
    /\ startswith(text.s, Fence)
    /\ Len(extracted.s) > Len(SelectKw)
    /\ Len(extracted.s) < Len(text.s)

----------------------------------------------------------------------------
(* Properties of the backend chain (Spec) *)

\* the response text of a call carries the insufficiency literal
GaveInsufficient(c) ==
    c.kind = "body" /\ c.txt.tag = "str" /\ HasInsufficientLiteral(c.txt.s)

\* the response text of a call carries a statement
GaveStatement(c) ==
    /\ c.kind = "body"
    /\ c.txt.tag = "str"
    /\ ~HasInsufficientLiteral(c.txt.s)
    /\ LET t2 == StripFences(strip(c.txt.s))
       IN  \E i \in 1..Len(t2) : SelectMatchAt(t2, i)

\* the backend was unavailable, failed in transport, answered with an error
\* status or a malformed body, or answered with text that holds no statement
GaveNothing(c) == ~GaveInsufficient(c) /\ ~GaveStatement(c)

NextBackend(name) ==
    IF name = "openai" THEN "anthropic"
    ELSE IF name = "anthropic" THEN "ollama-duckdb-nsql"
    ELSE "none"

PcOf(name) == IF name = "ollama-duckdb-nsql" THEN "ollama" ELSE name

\* C1: a backend whose extracted result is Insufficient ends the chain: it
\* is the last backend called, and the outcome is Insufficient with that
\* backend's name as source, in the response too.
C1_InsufficientStopsChain ==
    \A i \in 1..Len(invoked) :
        GaveInsufficient(invoked[i])
            => /\ i = Len(invoked)
               /\ pc \in {"finish", "done"}
               /\ source = invoked[i].name
               /\ source # "none"
               /\ sql = Str(INSUFFICIENT_DATA)
               /\ pc = "done" => /\ response.answer = "insufficient data"
                                 /\ response.source = invoked[i].name

\* C1 witness: the first backend answered insufficient data and the request
\* was answered without a second backend call
C1_Witness ==
    /\ pc = "done"
    /\ Len(invoked) = 1
    /\ invoked[1].http
    /\ GaveInsufficient(invoked[1])
    /\ response.source = "openai"

\* C2: after a backend that gave nothing the next backend is called (or the
\* chain is exhausted), and a backend that gives a statement ends the chain
\* with Success attributed to it, every backend before it having given
\* nothing.
C2_FailureFallsThrough ==
    \A i \in 1..Len(invoked) :
        /\ GaveNothing(invoked[i])
              => \/ i < Len(invoked) /\ invoked[i + 1].name = NextBackend(invoked[i].name)
                 \/ /\ i = Len(invoked)
                    /\ invoked[i].name # "ollama-duckdb-nsql"
                    /\ pc = PcOf(NextBackend(invoked[i].name))
                 \/ /\ i = Len(invoked)
                    /\ invoked[i].name = "ollama-duckdb-nsql"
                    /\ pc \in {"finish", "done"}
                    /\ source = "none"
        /\ GaveStatement(invoked[i])
              => /\ i = Len(invoked)
                 /\ \A j \in 1..(i - 1) : GaveNothing(invoked[j])
                 /\ pc \in {"finish", "done"}
                 /\ source = invoked[i].name
                 /\ sql = extract_sql(invoked[i].txt)
                 /\ starts_with_select(sql.s)

\* C2 witness: the first backend failed in transport or status, the second
\* gave a statement, and the answer is attributed to the second
C2_Witness ==
    /\ pc = "done"
    /\ Len(invoked) = 2
    /\ invoked[1].kind \in {"raises", "http_error"}
    /\ GaveStatement(invoked[2])
    /\ response.status = 200
    /\ response.source = "anthropic"
    /\ response.sql = sql

\* C3: the source is "none" exactly when all three backends were called and
\* each gave nothing, and then the outcome is Insufficient, never a statement.
C3_NoneOnlyWhenExhausted ==
    pc \in {"finish", "done"}
        => /\ source = "none"
                <=> /\ Len(invoked) = 3
                    /\ \A i \in 1..3 : GaveNothing(invoked[i])
           /\ source = "none" => sql = Str(INSUFFICIENT_DATA)
           /\ (pc = "done" /\ response.source = "none")
                => response.answer = "insufficient data" /\ response.sql = NoneVal

\* C3 witness: a request whose three backends gave nothing was answered
C3_Witness ==
    /\ pc = "done"
    /\ source = "none"
    /\ response.source = "none"
    /\ Len(invoked) = 3
    /\ ~invoked[1].http

\* C4: when the chain is exhausted with no insufficiency signal, the response
\* is the could-not-generate error and not the insufficient-data answer.
C4_ExhaustedIsDistinctError ==
    (pc = "done" /\ source = "none")
        => /\ response.error = "llm_failed"
           /\ response.answer # "insufficient data"

----------------------------------------------------------------------------
(* Properties of query_parquet and of the guards of ask (SpecQuery) *)

\* the first character of s that is not a space starts the letters of
\* select, in any letter case
BeginsWithSelect(s) ==
    \E k \in 1..Len(s) :
        /\ \A j \in 1..(k - 1) : IsSpace(s[j])
        /\ SelectSubstringAt(s, k)

\* C7: on an open connection query_parquet raises the validation error and
\* hands nothing to the connection for every statement that does not begin
\* with select after trimming, in any letter case, and hands every statement
\* that does to the connection; ask answers a statement of the first kind
\* with the 400 bad_query error and runs nothing.
C7_OnlySelectIsExecuted ==
    /\ (q_out # NoQueryOut /\ DUCK_CONN # "None")
          => IF BeginsWithSelect(sql.s)
             THEN q_out.exc # "ValueError" /\ q_out.executed = <<sql.s>>
             ELSE /\ q_out.exc = "ValueError"
                  /\ q_out.executed = <<>>
                  /\ view = PARQUET_PATH
    /\ ( /\ pc = "done"
         /\ IsNonEmptyStr(sql)
         /\ strip(sql.s) # <<>>
         /\ sql # Str(INSUFFICIENT_DATA)
         /\ ~BeginsWithSelect(sql.s) )
          => /\ response.status = 400
             /\ response.error = "bad_query"
             /\ stmts = <<ColumnsProbe>>
             /\ view = PARQUET_PATH

\* C7 witness: an upper-case DROP statement was rejected by query_parquet
C7_Witness ==
    /\ q_out.exc = "ValueError"
    /\ sql = Str(<<"D", "R", "O", "P", " ", "v", "i", "e", "w", " ", "d", "a", "t", "a">>)
    /\ view = "a"

\* C8: a statement that produces n rows, run with row cap c, returns the
\* first min(n, c) of them; rowcount is the number of rows returned and is at
\* most c; with n below c all n rows come back.
C8_RowCap ==
    (q_out.exc = "None")
        => LET produced == duck_execute(sql.s, PARQUET_PATH).rows
               n == Len(produced)
               m == IF n < q_cap THEN n ELSE q_cap
           IN  /\ Len(q_out.rows) = m
               /\ \A i \in 1..m : q_out.rows[i] = produced[i]
               /\ q_out.rowcount = Len(q_out.rows)
               /\ q_out.rowcount <= q_cap
               /\ n < q_cap => q_out.rows = produced

\* C8 witness: the cap cut the result of a statement short
C8_Witness ==
    /\ q_out.exc = "None"
    /\ q_cap > 0
    /\ q_out.rowcount = q_cap
    /\ Len(duck_execute(sql.s, PARQUET_PATH).rows) > q_cap

----------------------------------------------------------------------------
(* Readiness (Spec) *)

\* C9: a request that reaches ask while PARQUET_PATH or DUCK_CONN is None is
\* answered 503 parquet_not_ready in that step: no backend is called, no
\* statement is run, and the snapshot files are left as they are.
C9_NotReadyFailsFast ==
    [][ ( /\ appState = "up"
          /\ (PARQUET_PATH = PathNone \/ DUCK_CONN = "None")
          /\ REQUESTS_TOTAL' = REQUESTS_TOTAL + 1
          /\ ERRORS_TOTAL' = ERRORS_TOTAL )
        => /\ response'.status = 503
           /\ response'.error = "parquet_not_ready"
           /\ pc' = "done"
           /\ invoked' = <<>>
           /\ stmts' = <<>>
           /\ UNCHANGED <<pqMtime, csvMtime, ensureLog, view, PARQUET_PATH, DUCK_CONN>> ]_vars

\* C9 witness: a request was answered 503 by a process without a connection
C9_Witness ==
    /\ appState = "up"
    /\ DUCK_CONN = "None"
    /\ pc = "done"
    /\ response.status = 503
    /\ REQUESTS_TOTAL = 1
    /\ ERRORS_TOTAL = 0

----------------------------------------------------------------------------
(* Properties of the snapshot builder (SpecSnapshot) *)

\* C10: of two consecutive _ensure_parquet calls with no change to the CSV
\* files in between, at most one rebuilds; when the first returned a path the
\* second returns the same path without rebuilding.
C10_EnsureIdempotent ==
    \A i \in 1..(Len(ensureLog) - 1) :
        ensureLog[i].epoch = ensureLog[i + 1].epoch
            => /\ ~(ensureLog[i].built /\ ensureLog[i + 1].built)
               /\ ensureLog[i].ret # PathNone
                    => /\ ensureLog[i + 1].ret = ensureLog[i].ret
                       /\ ~ensureLog[i + 1].built

\* C10 witness: a call rebuilt the snapshot and the next call, with the CSV
\* files unchanged, returned the same path without rebuilding
C10_Witness ==
    /\ Len(ensureLog) >= 2
    /\ ensureLog[1].built
    /\ ensureLog[2].epoch = ensureLog[1].epoch
    /\ ~ensureLog[2].built
    /\ ensureLog[2].ret = ensureLog[1].ret

----------------------------------------------------------------------------
(* Properties of normalize_csv (SpecNormalize) *)

\* the lines of the input that have cells
DataRows(rows) == SelectSeq(rows, LAMBDA r : r # <<>>)

\* C11: normalize_csv ends with one written row for every data row of the
\* input, none dropped, and with rows_in equal to rows_out.
C11_RowCountPreserved ==
    n_pc # "loop" =>
        /\ n_pc = "returned"
        /\ Len(written) = Len(DataRows(raw_rows))
        /\ rows_in = rows_out

----------------------------------------------------------------------------
(* Properties of the cell parsers (SpecCells) *)

\* number * 10^factor_exp rounded down, computed on whole numbers
MoneyValueExact(num_part, suffix) ==
    LET digits == Remove(num_part, {"."})
        frac == Len(digits) - DigitRun(num_part, 1)
    IN  LDiv10(LMul(LOfDigits(digits, <<>>), LPow10(factor_exp(suffix))), frac).q

\* the text the amount parser is documented to return for value
MoneyExpected(value) ==
    IF value.tag = "None"
    THEN <<>>
    ELSE LET s0 == strip(value.s)
             s == lower(Remove(s0, {"$", ",", " "}))
             n == num_match(s)
             j == suffix_match(s)
         IN  IF s0 = <<>> \/ lower(s0) \in EmptyWords \/ n = 0
             THEN <<>>
             ELSE str_of_int(MoneyValueExact(SubSeq(s, 1, n),
                                               IF j > 0 THEN s[j] ELSE ""))

\* C12: parse_money_to_int returns the empty text for an empty word and for
\* a text without a leading decimal number, and otherwise the integer text
\* of the leading number times 10^12, 10^9 or 10^6 for the suffix t, b or m
\* (times 1 otherwise), rounded down.
C12_MoneyIsTruncatedProduct ==
    money # NotCalled => money = Str(MoneyExpected(cell))

IsSignedDigits(s) ==
    /\ s # <<>>
    /\ LET body == IF s[1] \in {"-", "+"} THEN Tail(s) ELSE s
       IN  body # <<>> /\ \A i \in 1..Len(body) : body[i] \in Digits

RECURSIVE NatValue(_)
NatValue(ds) ==
    IF ds = <<>>
    THEN 0
    ELSE NatValue(SubSeq(ds, 1, Len(ds) - 1)) * 10 + DigitVal(ds[Len(ds)])

\* the integer a text of an optional sign and digits denotes
IntValue(s) ==
    IF s[1] = "-" THEN 0 - NatValue(Tail(s))
    ELSE IF s[1] = "+" THEN NatValue(Tail(s))
    ELSE NatValue(s)

\* the text str gives for an int: no plus sign, no leading zero, no minus zero
IsIntegerText(s) ==
    /\ IsSignedDigits(s)
    /\ s[1] # "+"
    /\ LET body == IF s[1] = "-" THEN Tail(s) ELSE s
       IN  /\ Len(body) > 1 => body[1] # "0"
           /\ s[1] = "-" => body # <<"0">>

\* C13: parse_employees_to_int returns the integer text of the value when
\* the trimmed input without its commas is an optional sign followed only
\* by digits, and the empty text otherwise.
C13_EmployeesIntegerText ==
    employees # NotCalled =>
        LET t == IF cell.tag = "None" THEN <<>> ELSE Remove(strip(cell.s), {","})
        IN  IF IsSignedDigits(t)
            THEN /\ employees.tag = "str"
                 /\ IsIntegerText(employees.s)
                 /\ IntValue(employees.s) = IntValue(t)
            ELSE employees = Str(<<>>)

\* "1,234" was parsed to "1234"
C13_Witness ==
    /\ cell = Str(<<"1", ",", "2", "3", "4">>)
    /\ employees = Str(<<"1", "2", "3", "4">>)

----------------------------------------------------------------------------
(* Properties of the chart flags of ask (Spec) *)

\* C14: when the histogram keyword matches together with pie chart or
\* scatter plot, the context handed to the backends carries no histogram
\* requirement and the expected_columns of the response are not [bin, n].
C14_PieScatterPrecedeHistogram ==
    (flags.histogram /\ (flags.pie_chart \/ flags.scatter_plot)) =>
        /\ \A i \in 1..Len(context.blocks) : context.blocks[i] # "histogram"
        /\ response.expected_columns # <<"bin", "n">>

----------------------------------------------------------------------------
(* Properties of the rebuild decision (SpecSnapshot) *)

\* C15: a call of _ensure_parquet that finds a source file calls the
\* snapshot builder if and only if the snapshot file is absent or the
\* source's modification time is strictly newer than the snapshot's; with
\* equal times or a newer snapshot it builds nothing and returns the path
\* of the existing snapshot.
C15_RebuildIffAbsentOrNewer ==
    \A i \in 1..Len(ensureLog) :
        LET r == ensureLog[i]
        IN  r.csv # PathNone =>
                /\ r.tried <=> (r.pq_mtime = Absent \/ r.csv_mtime > r.pq_mtime)
                /\ r.built => r.tried
                /\ ~r.tried => r.ret = r.csv

\* C15 witness: a call found the snapshot exactly as old as its source,
\* built nothing and returned the snapshot's path
C15_Witness ==
    \E i \in 1..Len(ensureLog) :
        /\ ensureLog[i].csv # PathNone
        /\ ensureLog[i].pq_mtime # Absent
        /\ ensureLog[i].csv_mtime = ensureLog[i].pq_mtime
        /\ ~ensureLog[i].tried
        /\ ensureLog[i].ret = ensureLog[i].csv

----------------------------------------------------------------------------
(* Properties of the order of the backends (Spec) *)

Priority == <<"openai", "anthropic", "ollama-duckdb-nsql">>

\* C16: the backend functions called by one request are a prefix of
\* openai, anthropic, ollama-duckdb-nsql, so each is called at most once, in
\* that order and at most three in all, and a backend is called only after
\* every backend before it was skipped or failed.
C16_FixedOrderNoRetry ==
    /\ Len(invoked) <= Len(Priority)
    /\ \A i \in 1..Len(invoked) :
          /\ invoked[i].name = Priority[i]
          /\ \A j \in 1..(i - 1) : GaveNothing(invoked[j])

\* C16 witness: openai was skipped for want of a key, anthropic failed, and
\* ollama-duckdb-nsql was called third and last
C16_Witness ==
    /\ pc = "done"
    /\ Len(invoked) = 3
    /\ ~invoked[1].http
    /\ invoked[2].http /\ invoked[2].kind \in {"raises", "http_error"}
    /\ invoked[3].name = "ollama-duckdb-nsql" /\ invoked[3].http

----------------------------------------------------------------------------
(* Properties of the snapshot while the service runs (Spec) *)

\* C17: while the process is up, no step of a request changes the snapshot
\* files, the snapshot path or what the view data of the connection selects
\* from.
C17_SnapshotImmutable ==
    [][ (appState = "up" /\ appState' = "up")
            => /\ pqMtime' = pqMtime
               /\ PARQUET_PATH' = PARQUET_PATH
               /\ view' = view ]_vars

----------------------------------------------------------------------------
(* Properties of requests handled at the same time (SpecThreads) *)

\* C18: requests handled at the same time do not interfere: no thread holds
\* a value it read from a variable that another thread has written since,
\* and when all requests are handled every one of them has been counted.
C18_RequestsDoNotInterfere ==
    /\ \A t \in DOMAIN threads :
          /\ threads[t].pc = "loaded_requests" => threads[t].tmp = REQUESTS_TOTAL
          /\ threads[t].pc = "loaded_errors" => threads[t].tmp = ERRORS_TOTAL
    /\ (threads # <<>> /\ \A t \in DOMAIN threads : threads[t].pc = "done")
          => /\ REQUESTS_TOTAL = Len(threads)
             /\ ERRORS_TOTAL = Cardinality({ t \in DOMAIN threads : threads[t].kind = "notfound" })

----------------------------------------------------------------------------
(* Properties of the statements the orchestrator returns (Spec) *)

\* generate_sql_from_question has returned something other than the
\* insufficiency sentinel
ReturnedStatement ==
    /\ pc \in {"finish", "done"}
    /\ source # ""
    /\ sql # Str(INSUFFICIENT_DATA)

\* C19: every statement generate_sql_from_question returns other than the
\* insufficiency sentinel is a text whose first six characters are select in
\* some letter case, so it is not the FALLBACK sentinel and passes the guard
\* of ask and of query_parquet; no request is answered with bad_query.
C19_ReturnedStatementIsSelect ==
    /\ ReturnedStatement =>
          /\ sql.tag = "str"
          /\ Len(sql.s) >= Len(SelectKw)
          /\ lower(SubSeq(sql.s, 1, Len(SelectKw))) = SelectKw
          /\ sql # Str(FALLBACK)
          /\ starts_with_select(sql.s)
    /\ response.error # "bad_query"

\* C19 witness: the third backend answered with a fenced SELECT in capital
\* letters and the statement was run
C19_Witness ==
    /\ ReturnedStatement
    /\ pc = "done"
    /\ source = "ollama-duckdb-nsql"
    /\ sql.s[1] = "S"
    /\ invoked[3].txt.s[1] = BT
    /\ response.status = 200

====
